---- MODULE Spec2Model ----
(***************************************************************************)
(* The concurrent in-memory quote store of quotes-service                  *)
(* (internal/storage/memorystorage/memorystorage.go).                      *)
(*                                                                         *)
(* Callers are processes that invoke one store method at a time.  Every    *)
(* method is split at the points where another caller may interleave: the  *)
(* select on ctx.Done(), the acquisition of s.mu, each statement of a      *)
(* writer's critical section, and the deferred unlock that returns.        *)
(* Slices are modelled as Go slices: a (pointer, len, cap) header over a   *)
(* backing array kept in a heap, so that sharing of backing arrays between *)
(* the store and a returned value is something the model can exhibit.      *)
(***************************************************************************)
EXTENDS Integers, Sequences, FiniteSets, TLC

\* ------------------------------------------------------------ bounds
MaxID == 3             \* AddQuote is not called once s.nextID would pass MaxID + 1

Procs == {1, 2}        \* concurrent callers
Authors == {"Lee", "lee", "lee "}               \* the authorFilter of a GetQuotesByAuthor call
Inputs == {<<"t1", "Lee">>, <<"t2", "lee">>}   \* (text, author) of an AddQuote call
IDs == 1..MaxID        \* ids a DeleteQuote call may name

\* ------------------------------------------------------------ state
VARIABLES
    quotes,      \* s.quotes: map[int64]models.Quote
    quotesList,  \* s.quotesList: slice header
    nextID,      \* s.nextID
    mu,          \* s.mu: who holds the RWMutex
    heap,        \* backing arrays of the live slices
    pc,          \* where each caller stands in its method
    args,        \* the method it called and the arguments
    ctxDone,     \* whether the caller's ctx.Done() is closed
    id,          \* AddQuote's local id
    ret,         \* the value the method is returning
    held,        \* the slice a caller still holds from its last GetAllQuotes
    issued,      \* history: the ids AddQuote returned since Close, in order of return
    added,       \* history: per id, the AddQuote that returned it since Close, until deleted
    everIssued,  \* history: the ids AddQuote ever returned
    everAdded,   \* history: per id, the AddQuote that last returned it, until deleted
    pre,         \* history: the store as the writer in the critical section found it
    late,        \* history: the callers whose context was done when they took s.mu
    req,         \* the HTTP request a handler is serving, as received
    resp,        \* the HTTP response a handler last wrote
    srv          \* the HTTP server and main: serving, shutting down, stopped, closing, exited

vars == <<quotes, quotesList, nextID, mu, heap, pc, args, ctxDone, id, ret, held,
          issued, added, everIssued, everAdded, pre, late, req, resp, srv>>

store == <<quotes, quotesList, nextID, heap>>
hist == <<issued, added, everIssued, everAdded, pre, late>>
http == <<req, resp, srv>>

\* ------------------------------------------------------------ values
ZeroQuote == [ID |-> 0, Text |-> "", Author |-> ""]
Quote(i, t, a) == [ID |-> i, Text |-> t, Author |-> a]

NilSlice == [isNil |-> TRUE, arr |-> 0, len |-> 0, cap |-> 0]
EmptySlice == [isNil |-> FALSE, arr |-> 0, len |-> 0, cap |-> 0]

NoArgs == [op |-> "none", text |-> "", author |-> "", id |-> 0]
NoRet == [err |-> "none", id |-> 0, quote |-> ZeroQuote, list |-> NilSlice]
NoPre == [quotes |-> <<>>, list |-> <<>>, nextID |-> 0]
NoReq == [handler |-> "none"]
NoResp == [status |-> 0]
Serving == [state |-> "serving", timedOut |-> FALSE, closes |-> 0]

EmptyMap == <<>>
MapPut(m, k, v) == [x \in (DOMAIN m) \cup {k} |-> IF x = k THEN v ELSE m[x]]
MapDelete(m, k) == [x \in (DOMAIN m) \ {k} |-> m[x]]

\* ------------------------------------------------------------ slices
\* The elements a slice header shows: s[0:len].
View(h, s) == [i \in 1..s.len |-> h[s.arr][i]]

NewArray(h) == CHOOSE a \in 1..(Cardinality(DOMAIN h) + 1) : a \notin DOMAIN h

\* make([]models.Quote, n, c): a fresh zeroed array unless c = 0.
Make(h, n, c) ==
    IF c = 0 THEN <<h, EmptySlice>>
    ELSE LET a == NewArray(h) IN
         <<MapPut(h, a, [i \in 1..c |-> ZeroQuote]),
           [isNil |-> FALSE, arr |-> a, len |-> n, cap |-> c]>>

\* The capacity append grows to when the array is full.
GrowCap(c) == IF c = 0 THEN 1 ELSE 2 * c

\* append(s, q): in place while len < cap, else into a fresh, larger array.
SliceAppend(h, s, q) ==
    IF s.len < s.cap
    THEN <<[h EXCEPT ![s.arr][s.len + 1] = q], [s EXCEPT !.len = s.len + 1]>>
    ELSE LET a == NewArray(h)
             c == GrowCap(s.cap)
             old == View(h, s) IN
         <<MapPut(h, a, [i \in 1..c |-> IF i <= s.len THEN old[i]
                                         ELSE IF i = s.len + 1 THEN q
                                         ELSE ZeroQuote]),
           [isNil |-> FALSE, arr |-> a, len |-> s.len + 1, cap |-> c]>>

RECURSIVE AppendSeq(_, _, _)
AppendSeq(h, s, qs) ==
    IF qs = <<>> THEN <<h, s>>
    ELSE LET r == SliceAppend(h, s, Head(qs)) IN AppendSeq(r[1], r[2], Tail(qs))

\* The heap after a step: arrays no live slice points into are collected, and
\* the others are named by the first of s.quotesList, the values being returned
\* and the slices held that points into them (addresses carry no meaning
\* beyond which slices share an array).
Roots(list, rets, helds) ==
    <<list.arr>> \o [p \in Procs |-> rets[p].list.arr] \o [p \in Procs |-> helds[p].arr]

Canon(h, list, rets, helds) ==
    LET roots == Roots(list, rets, helds)
        name(a) == IF a = 0 THEN 0
                   ELSE CHOOSE i \in DOMAIN roots :
                            roots[i] = a /\ \A j \in 1..(i - 1) : roots[j] # a
        live == {i \in DOMAIN roots : roots[i] # 0 /\ name(roots[i]) = i}
        move(s) == [s EXCEPT !.arr = name(s.arr)] IN
    [heap |-> [i \in live |-> h[roots[i]]],
     list |-> move(list),
     rets |-> [p \in Procs |-> [rets[p] EXCEPT !.list = move(rets[p].list)]],
     helds |-> [p \in Procs |-> move(helds[p])]]

\* ------------------------------------------------------------ sync.RWMutex
Unlocked == [writer |-> 0, readers |-> {}]
CanLock_Free(m) == TRUE
CanLock_IgnoresReaders(m) == m.writer = 0
CanLock(m) == m.writer = 0 /\ m.readers = {}
CanRLock_IgnoresWriter(m) == TRUE
CanRLock_NoReaders(m) == m.readers = {}
CanRLock(m) == m.writer = 0

Writers == {"Add", "Delete", "Close"}
Readers == {"GetAll", "Random", "ByAuthor"}

\* ------------------------------------------------------------ New
Init ==
    /\ quotes = EmptyMap
    /\ quotesList = EmptySlice
    /\ nextID = 1
    /\ mu = Unlocked
    /\ heap = <<>>
    /\ pc = [p \in Procs |-> "idle"]
    /\ args = [p \in Procs |-> NoArgs]
    /\ ctxDone = [p \in Procs |-> FALSE]
    /\ id = [p \in Procs |-> 0]
    /\ ret = [p \in Procs |-> NoRet]
    /\ held = [p \in Procs |-> NilSlice]
    /\ issued = <<>>
    /\ added = <<>>
    /\ everIssued = {}
    /\ everAdded = <<>>
    /\ pre = NoPre
    /\ late = {}
    /\ req = [p \in Procs |-> NoReq]
    /\ resp = [p \in Procs |-> NoResp]
    /\ srv = Serving

\* The slices and the heap after a step that allocates or drops an array.
Settle(h, list, rets, helds) ==
    LET c == Canon(h, list, rets, helds) IN
    /\ heap' = c.heap
    /\ quotesList' = c.list
    /\ ret' = c.rets
    /\ held' = c.helds

\* ------------------------------------------------------------ calls
\* AddQuote calls that have not yet incremented s.nextID.
AddsPending == Cardinality({p \in Procs : args[p].op = "Add"
                                          /\ pc[p] \in {"select", "lock", "add_id", "add_incr"}})

\* A caller invokes a method; it has by then dropped the slice it held.
Invoke(p, a, first) ==
    /\ pc[p] = "idle"
    /\ pc' = [pc EXCEPT ![p] = first]
    /\ args' = [args EXCEPT ![p] = a]
    /\ IF held[p].isNil
       THEN UNCHANGED <<heap, quotesList, ret, held>>
       ELSE Settle(heap, quotesList, ret, [held EXCEPT ![p] = NilSlice])
    /\ UNCHANGED <<quotes, nextID, mu, ctxDone, id, hist>>

CallAddQuote(p) ==
    /\ nextID + AddsPending <= MaxID
    /\ \E i \in Inputs :
           Invoke(p, [op |-> "Add", text |-> i[1], author |-> i[2], id |-> 0], "select")
    /\ UNCHANGED http

CallGetAllQuotes(p) ==
    /\ Invoke(p, [NoArgs EXCEPT !.op = "GetAll"], "select")
    /\ UNCHANGED http

CallGetRandomQuote(p) ==
    /\ Invoke(p, [NoArgs EXCEPT !.op = "Random"], "select")
    /\ UNCHANGED http

CallGetQuotesByAuthor(p) ==
    /\ \E a \in Authors : Invoke(p, [NoArgs EXCEPT !.op = "ByAuthor", !.author = a], "select")
    /\ UNCHANGED http

CallDeleteQuote(p) ==
    /\ \E k \in IDs : Invoke(p, [NoArgs EXCEPT !.op = "Delete", !.id = k], "select")
    /\ UNCHANGED http

\* Close takes no context.
CallClose(p) ==
    /\ Invoke(p, [NoArgs EXCEPT !.op = "Close"], "lock")
    /\ UNCHANGED http

\* The caller's context is cancelled or expires: before the call (the method
\* then starts at its select with ctx.Done() closed) or while the call waits
\* for s.mu.  No method reads ctx once it holds the lock, and ctxDone is not
\* kept from there on.
Cancel(p) ==
    /\ pc[p] \in {"select", "lock"}
    /\ args[p].op # "Close"
    /\ ~ctxDone[p]
    /\ ctxDone' = [ctxDone EXCEPT ![p] = TRUE]
    /\ UNCHANGED <<store, mu, pc, args, id, ret, held, hist, http>>

\* What a method returns when ctx.Done() is closed: the zero value and ctx.Err().
Cancelled == [NoRet EXCEPT !.err = "Canceled"]

\* no select on ctx.Done()
CtxSelect_NoCheck(p) ==
    /\ pc[p] = "select"
    /\ pc' = [pc EXCEPT ![p] = "lock"]
    /\ UNCHANGED <<store, mu, args, ctxDone, id, ret, held, hist, http>>

\* select { case <-ctx.Done(): return ..., ctx.Err(); default: }
CtxSelect(p) ==
    /\ pc[p] = "select"
    /\ IF ctxDone[p]
       THEN /\ ret' = [ret EXCEPT ![p] = Cancelled]
            /\ pc' = [pc EXCEPT ![p] = "return"]
       ELSE /\ pc' = [pc EXCEPT ![p] = "lock"]
            /\ ret' = ret
    /\ UNCHANGED <<store, mu, args, ctxDone, id, held, hist, http>>

\* The first statement of each method's critical section.
Body(op) ==
    CASE op = "Add" -> "add_id"
      [] op = "Delete" -> "del_check"
      [] op = "Close" -> "close_map"
      [] op = "GetAll" -> "getall"
      [] op = "Random" -> "random"
      [] op = "ByAuthor" -> "byauthor"

\* s.mu.Lock()
Lock(p) ==
    /\ pc[p] = "lock"
    /\ args[p].op \in Writers
    /\ CanLock(mu)
    /\ mu' = [mu EXCEPT !.writer = p]
    /\ pc' = [pc EXCEPT ![p] = Body(args[p].op)]
    /\ ctxDone' = [ctxDone EXCEPT ![p] = FALSE]
    /\ pre' = [quotes |-> quotes, list |-> View(heap, quotesList), nextID |-> nextID]
    /\ UNCHANGED <<store, args, id, ret, held, issued, added, everIssued, everAdded, late, http>>

\* s.mu.Lock(), with a record of whether the caller's context was done by then
LockLate(p) ==
    /\ pc[p] = "lock"
    /\ args[p].op \in Writers
    /\ CanLock(mu)
    /\ mu' = [mu EXCEPT !.writer = p]
    /\ pc' = [pc EXCEPT ![p] = Body(args[p].op)]
    /\ ctxDone' = [ctxDone EXCEPT ![p] = FALSE]
    /\ pre' = [quotes |-> quotes, list |-> View(heap, quotesList), nextID |-> nextID]
    /\ late' = IF ctxDone[p] THEN late \cup {p} ELSE late
    /\ UNCHANGED <<store, args, id, ret, held, issued, added, everIssued, everAdded, http>>

\* s.mu.RLock()
RLock(p) ==
    /\ pc[p] = "lock"
    /\ args[p].op \in Readers
    /\ CanRLock(mu)
    /\ mu' = [mu EXCEPT !.readers = @ \cup {p}]
    /\ pc' = [pc EXCEPT ![p] = Body(args[p].op)]
    /\ ctxDone' = [ctxDone EXCEPT ![p] = FALSE]
    /\ UNCHANGED <<store, args, id, ret, held, hist, http>>

\* ------------------------------------------------------------ AddQuote
\* id := len(s.quotesList) + 1
AddID_FromLen(p) ==
    /\ pc[p] = "add_id"
    /\ id' = [id EXCEPT ![p] = quotesList.len + 1]
    /\ pc' = [pc EXCEPT ![p] = "add_incr"]
    /\ UNCHANGED <<store, mu, args, ctxDone, ret, held, hist, http>>

\* id := s.nextID
AddID(p) ==
    /\ pc[p] = "add_id"
    /\ id' = [id EXCEPT ![p] = nextID]
    /\ pc' = [pc EXCEPT ![p] = "add_incr"]
    /\ UNCHANGED <<store, mu, args, ctxDone, ret, held, hist, http>>

\* s.nextID = id
AddIncr_Stuck(p) ==
    /\ pc[p] = "add_incr"
    /\ nextID' = id[p]
    /\ pc' = [pc EXCEPT ![p] = "add_map"]
    /\ UNCHANGED <<quotes, quotesList, heap, mu, args, ctxDone, id, ret, held, hist, http>>

\* s.nextID++
AddIncr(p) ==
    /\ pc[p] = "add_incr"
    /\ nextID' = nextID + 1
    /\ pc' = [pc EXCEPT ![p] = "add_map"]
    /\ UNCHANGED <<quotes, quotesList, heap, mu, args, ctxDone, id, ret, held, hist, http>>

\* quote := models.Quote{ID: id, Text: author, Author: text}
NewQuote_Swapped(p) == Quote(id[p], args[p].author, args[p].text)

\* quote := models.Quote{ID: id, Text: text, Author: author}
NewQuote(p) == Quote(id[p], args[p].text, args[p].author)

\* s.quotes[id] = quote
AddMap(p) ==
    /\ pc[p] = "add_map"
    /\ quotes' = MapPut(quotes, id[p], NewQuote(p))
    /\ pc' = [pc EXCEPT ![p] = "add_list"]
    /\ UNCHANGED <<quotesList, nextID, heap, mu, args, ctxDone, id, ret, held, hist, http>>

\* s.quotesList = append(s.quotesList, quote); return id, nil
AddList(p) ==
    /\ pc[p] = "add_list"
    /\ LET r == SliceAppend(heap, quotesList, NewQuote(p)) IN
         Settle(r[1], r[2],
                [ret EXCEPT ![p] = [NoRet EXCEPT !.err = "nil", !.id = id[p]]], held)
    /\ pc' = [pc EXCEPT ![p] = "unlock"]
    /\ UNCHANGED <<quotes, nextID, mu, args, ctxDone, id, hist, http>>

\* ------------------------------------------------------------ GetAllQuotes
\* copy(dst, src): min(len(dst), len(src)) elements, into dst's array.
CopySlice(h, dst, src) ==
    LET n == IF dst.len < src.len THEN dst.len ELSE src.len IN
    IF n = 0 THEN h
    ELSE [h EXCEPT ![dst.arr] = [i \in 1..dst.cap |->
                                   IF i <= n THEN h[src.arr][i] ELSE h[dst.arr][i]]]

\* return s.quotesList, nil
ListCopy_Alias(h, list) == <<h, list>>

\* listCopy := make([]models.Quote, len(s.quotesList)); copy(listCopy, s.quotesList)
ListCopy(h, list) ==
    LET m == Make(h, list.len, list.len) IN <<CopySlice(m[1], m[2], list), m[2]>>

\* return listCopy, nil
GetAllQuotes(p) ==
    /\ pc[p] = "getall"
    /\ LET r == ListCopy(heap, quotesList) IN
         Settle(r[1], quotesList,
                [ret EXCEPT ![p] = [NoRet EXCEPT !.err = "nil", !.list = r[2]]], held)
    /\ pc' = [pc EXCEPT ![p] = "runlock"]
    /\ UNCHANGED <<quotes, nextID, mu, args, ctxDone, id, hist, http>>

\* ------------------------------------------------------------ GetRandomQuote
\* rand.Intn(n - 1)
Intn_Short(n) == 0..(n - 2)

\* rand.Intn(n): any of 0 .. n-1.
Intn(n) == 0..(n - 1)

\* return s.quotesList[randomIndex], nil
RandomPick(p, i) ==
    /\ pc[p] = "random"
    /\ quotesList.len # 0
    /\ i \in Intn(quotesList.len)
    /\ ret' = [ret EXCEPT ![p] =
                 [NoRet EXCEPT !.err = "nil", !.quote = heap[quotesList.arr][i + 1]]]
    /\ pc' = [pc EXCEPT ![p] = "runlock"]
    /\ UNCHANGED <<store, mu, args, ctxDone, id, held, hist, http>>

\* if len(s.quotesList) == 0 { return models.Quote{}, storage.ErrQuoteNotFound }
RandomEmpty(p) ==
    /\ pc[p] = "random"
    /\ quotesList.len = 0
    /\ ret' = [ret EXCEPT ![p] = [NoRet EXCEPT !.err = "NotFound"]]
    /\ pc' = [pc EXCEPT ![p] = "runlock"]
    /\ UNCHANGED <<store, mu, args, ctxDone, id, held, hist, http>>

GetRandomQuote(p) ==
    \/ RandomEmpty(p)
    \/ \E i \in 0..MaxID : RandomPick(p, i)

\* ------------------------------------------------------------ GetQuotesByAuthor
\* strings.EqualFold(strings.TrimSpace(q.Author), strings.TrimSpace(authorFilter))
Fold(a) == IF a \in {"Lee", "lee "} THEN "lee" ELSE a
AuthorMatches_Fold(author, authorFilter) == Fold(author) = Fold(authorFilter)

\* q.Author == authorFilter
AuthorMatches(author, authorFilter) == author = authorFilter

\* var result []models.Quote; for _, q := range s.quotesList { if ... { append } }
\* if result == nil { return []models.Quote{}, nil }
FilterByAuthor(h, list, authorFilter) ==
    LET hit == SelectSeq(View(h, list), LAMBDA q : AuthorMatches(q.Author, authorFilter))
        r == AppendSeq(h, NilSlice, hit) IN
    IF r[2].isNil THEN <<h, EmptySlice>> ELSE r

\* return result, nil
GetQuotesByAuthor(p) ==
    /\ pc[p] = "byauthor"
    /\ LET r == FilterByAuthor(heap, quotesList, args[p].author) IN
         Settle(r[1], quotesList,
                [ret EXCEPT ![p] = [NoRet EXCEPT !.err = "nil", !.list = r[2]]], held)
    /\ pc' = [pc EXCEPT ![p] = "runlock"]
    /\ UNCHANGED <<quotes, nextID, mu, args, ctxDone, id, hist, http>>

\* ------------------------------------------------------------ DeleteQuote
\* no check that s.quotes holds id
DeleteCheck_Skipped(p) ==
    /\ pc[p] = "del_check"
    /\ pc' = [pc EXCEPT ![p] = "del_map"]
    /\ UNCHANGED <<store, mu, args, ctxDone, id, ret, held, hist, http>>

\* _, exists := s.quotes[id]; if !exists { return storage.ErrQuoteNotFound }
DeleteCheck(p) ==
    /\ pc[p] = "del_check"
    /\ IF args[p].id \in DOMAIN quotes
       THEN /\ pc' = [pc EXCEPT ![p] = "del_map"]
            /\ ret' = ret
       ELSE /\ pc' = [pc EXCEPT ![p] = "unlock"]
            /\ ret' = [ret EXCEPT ![p] = [NoRet EXCEPT !.err = "NotFound"]]
    /\ UNCHANGED <<store, mu, args, ctxDone, id, held, hist, http>>

\* delete(s.quotes, id)
DeleteMap(p) ==
    /\ pc[p] = "del_map"
    /\ quotes' = MapDelete(quotes, args[p].id)
    /\ pc' = [pc EXCEPT ![p] = "del_list"]
    /\ UNCHANGED <<quotesList, nextID, heap, mu, args, ctxDone, id, ret, held, hist, http>>

\* newList = s.quotesList[:len(s.quotesList)-1], copied
WithoutID_DropsLast(h, list, k) ==
    LET m == IF list.len > 0 THEN Make(h, 0, list.len - 1) ELSE Make(h, 0, 0) IN
    AppendSeq(m[1], m[2], SubSeq(View(h, list), 1, list.len - 1))

\* newList = make([]models.Quote, 0, len(s.quotesList)-1) (or make(.., 0));
\* for _, q := range s.quotesList { if q.ID != id { newList = append(newList, q) } }
WithoutID(h, list, k) ==
    LET m == IF list.len > 0 THEN Make(h, 0, list.len - 1) ELSE Make(h, 0, 0) IN
    AppendSeq(m[1], m[2], SelectSeq(View(h, list), LAMBDA q : q.ID # k))

\* s.quotesList = newList; return nil
DeleteList(p) ==
    /\ pc[p] = "del_list"
    /\ LET r == WithoutID(heap, quotesList, args[p].id) IN
         Settle(r[1], r[2], [ret EXCEPT ![p] = [NoRet EXCEPT !.err = "nil"]], held)
    /\ pc' = [pc EXCEPT ![p] = "unlock"]
    /\ UNCHANGED <<quotes, nextID, mu, args, ctxDone, id, hist, http>>

\* ------------------------------------------------------------ Close
\* s.quotes = make(map[int64]models.Quote)
CloseMap(p) ==
    /\ pc[p] = "close_map"
    /\ quotes' = EmptyMap
    /\ pc' = [pc EXCEPT ![p] = "close_list"]
    /\ UNCHANGED <<quotesList, nextID, heap, mu, args, ctxDone, id, ret, held, hist, http>>

\* s.quotesList left as it is
CloseList_Skipped(p) ==
    /\ pc[p] = "close_list"
    /\ pc' = [pc EXCEPT ![p] = "close_next"]
    /\ UNCHANGED <<store, mu, args, ctxDone, id, ret, held, hist, http>>

\* s.quotesList = []models.Quote{}
CloseList(p) ==
    /\ pc[p] = "close_list"
    /\ Settle(heap, EmptySlice, ret, held)
    /\ pc' = [pc EXCEPT ![p] = "close_next"]
    /\ UNCHANGED <<quotes, nextID, mu, args, ctxDone, id, hist, http>>

\* The value Close resets s.nextID to.
CloseNextID == 1

\* return nil, s.nextID left as it is
CloseNext_NoReset(p) ==
    /\ pc[p] = "close_next"
    /\ ret' = [ret EXCEPT ![p] = [NoRet EXCEPT !.err = "nil"]]
    /\ pc' = [pc EXCEPT ![p] = "unlock"]
    /\ issued' = <<>>
    /\ added' = <<>>
    /\ UNCHANGED <<quotes, quotesList, nextID, heap, mu, args, ctxDone, id, held,
                   everIssued, everAdded, pre, late, http>>

\* s.nextID = 1; return nil
\* The histories since Close start again here.
CloseNext(p) ==
    /\ pc[p] = "close_next"
    /\ nextID' = CloseNextID
    /\ ret' = [ret EXCEPT ![p] = [NoRet EXCEPT !.err = "nil"]]
    /\ pc' = [pc EXCEPT ![p] = "unlock"]
    /\ issued' = <<>>
    /\ added' = <<>>
    /\ UNCHANGED <<quotes, quotesList, heap, mu, args, ctxDone, id, held,
                   everIssued, everAdded, pre, late, http>>

\* ------------------------------------------------------------ returns
\* The method returns to its caller, which drops the value.
Return(p) ==
    /\ pc' = [pc EXCEPT ![p] = "idle"]
    /\ args' = [args EXCEPT ![p] = NoArgs]
    /\ ctxDone' = [ctxDone EXCEPT ![p] = FALSE]
    /\ id' = [id EXCEPT ![p] = 0]

Drop(p) == Settle(heap, quotesList, [ret EXCEPT ![p] = NoRet], held)

\* The caller keeps the slice GetAllQuotes returned.
Keep(p) ==
    Settle(heap, quotesList, [ret EXCEPT ![p] = NoRet], [held EXCEPT ![p] = ret[p].list])

\* What the histories since Close record when AddQuote or DeleteQuote returns.
Record(p) ==
    /\ issued' = IF args[p].op = "Add" THEN Append(issued, ret[p].id) ELSE issued
    /\ added' =
         CASE args[p].op = "Add" ->
                MapPut(added, ret[p].id, [Text |-> args[p].text, Author |-> args[p].author])
           [] args[p].op = "Delete" /\ ret[p].err = "nil" -> MapDelete(added, args[p].id)
           [] OTHER -> added
    /\ pre' = NoPre
    /\ late' = late \ {p}

\* What the histories of the store's whole life record when a writer returns.
RecordEver(p) ==
    /\ everIssued' = IF args[p].op = "Add" THEN everIssued \cup {ret[p].id} ELSE everIssued
    /\ everAdded' =
         CASE args[p].op = "Add" ->
                MapPut(everAdded, ret[p].id,
                       [Text |-> args[p].text, Author |-> args[p].author])
           [] args[p].op = "Delete" /\ ret[p].err = "nil" -> MapDelete(everAdded, args[p].id)
           [] OTHER -> everAdded

\* defer s.mu.Unlock()
Unlock(p) ==
    /\ pc[p] = "unlock"
    /\ mu' = [mu EXCEPT !.writer = IF @ = p THEN 0 ELSE @]
    /\ Record(p)
    /\ Return(p)
    /\ Drop(p)
    /\ UNCHANGED <<quotes, nextID, everIssued, everAdded, http>>

\* defer s.mu.Unlock(), with the store's whole life recorded
UnlockEver(p) ==
    /\ pc[p] = "unlock"
    /\ mu' = [mu EXCEPT !.writer = IF @ = p THEN 0 ELSE @]
    /\ Record(p)
    /\ RecordEver(p)
    /\ Return(p)
    /\ Drop(p)
    /\ UNCHANGED <<quotes, nextID, http>>

\* defer s.mu.RUnlock()
RUnlock(p) ==
    /\ pc[p] = "runlock"
    /\ mu' = [mu EXCEPT !.readers = @ \ {p}]
    /\ Return(p)
    /\ Drop(p)
    /\ UNCHANGED <<quotes, nextID, hist, http>>

\* The callers that keep what GetAllQuotes returns.
Keepers == {1}

\* defer s.mu.RUnlock(), by a caller of GetAllQuotes that keeps the result
RUnlockKeep(p) ==
    /\ pc[p] = "runlock"
    /\ args[p].op = "GetAll"
    /\ p \in Keepers
    /\ mu' = [mu EXCEPT !.readers = @ \ {p}]
    /\ Return(p)
    /\ Keep(p)
    /\ UNCHANGED <<quotes, nextID, hist, http>>

\* return ..., ctx.Err(): no lock was taken
ReturnCancelled(p) ==
    /\ pc[p] = "return"
    /\ Return(p)
    /\ Drop(p)
    /\ UNCHANGED <<quotes, nextID, mu, hist, http>>

\* ------------------------------------------------------------ HTTP handlers
\* In a request a string is the sequence of its characters.
Whitespace == {" ", "\t", "\n", "\r"}

\* strings.TrimSpace
RECURSIVE TrimLeft(_)
TrimLeft(s) ==
    IF s # <<>> /\ Head(s) \in Whitespace THEN TrimLeft(Tail(s)) ELSE s

RECURSIVE TrimRight(_)
TrimRight(s) ==
    IF s # <<>> /\ s[Len(s)] \in Whitespace THEN TrimRight(SubSeq(s, 1, Len(s) - 1)) ELSE s

TrimSpace(s) == TrimRight(TrimLeft(s))

\* s == ""
IsBlank_NoTrim(s) == s = <<>>

\* strings.TrimSpace(s) == ""
IsBlank(s) == TrimSpace(s) = <<>>

\* strconv.ParseInt(s, 10, 64): an optional sign, then decimal digits, the
\* value within int64.
Digits == <<"0", "1", "2", "3", "4", "5", "6", "7", "8", "9">>
IsDigit(c) == \E d \in DOMAIN Digits : Digits[d] = c
DigitVal(c) == (CHOOSE d \in DOMAIN Digits : Digits[d] = c) - 1

RECURSIVE DropZeros(_)
DropZeros(ds) == IF Len(ds) > 1 /\ Head(ds) = "0" THEN DropZeros(Tail(ds)) ELSE ds

\* The digits of 2^63 - 1 and of 2^63, the largest magnitudes of an int64.
MaxInt64 == <<"9", "2", "2", "3", "3", "7", "2", "0", "3", "6",
              "8", "5", "4", "7", "7", "5", "8", "0", "7">>
MinInt64 == [MaxInt64 EXCEPT ![Len(MaxInt64)] = "8"]

\* ds <= limit, both sequences of digits of the same length.
RECURSIVE DigitsLeq(_, _)
DigitsLeq(ds, limit) ==
    \/ ds = <<>>
    \/ DigitVal(Head(ds)) < DigitVal(Head(limit))
    \/ Head(ds) = Head(limit) /\ DigitsLeq(Tail(ds), Tail(limit))

RECURSIVE DigitsValue(_)
DigitsValue(ds) ==
    IF ds = <<>> THEN 0
    ELSE 10 * DigitsValue(SubSeq(ds, 1, Len(ds) - 1)) + DigitVal(ds[Len(ds)])

ParseInt(s) ==
    LET neg == s # <<>> /\ Head(s) = "-"
        ds == IF s # <<>> /\ Head(s) \in {"+", "-"} THEN Tail(s) ELSE s
        mag == DropZeros(ds)
        limit == IF neg THEN MinInt64 ELSE MaxInt64 IN
    IF ds = <<>> \/ \E i \in DOMAIN ds : ~IsDigit(ds[i])
    THEN [err |-> "syntax", value |-> 0]
    ELSE IF Len(mag) > Len(limit) \/ (Len(mag) = Len(limit) /\ ~DigitsLeq(mag, limit))
    THEN [err |-> "range", value |-> 0]
    ELSE [err |-> "nil", value |-> IF neg THEN 0 - DigitsValue(mag) ELSE DigitsValue(mag)]

\* json.NewDecoder(r.Body).Decode(&req): io.EOF on an empty body, another
\* error on a body that is not JSON, else the text and author the body gives
\* (a field it leaves out is "").
Decode(body) ==
    CASE body.kind = "empty" -> [err |-> "EOF", Text |-> <<>>, Author |-> <<>>]
      [] body.kind = "malformed" -> [err |-> "syntax", Text |-> <<>>, Author |-> <<>>]
      [] OTHER -> [err |-> "nil", Text |-> body.text, Author |-> body.author]

\* the validationErrors of NewAddQuoteHandler
ValidationErrors(r) ==
    (IF IsBlank(r.Text) THEN <<"text cannot be empty">> ELSE <<>>)
        \o (IF IsBlank(r.Author) THEN <<"author cannot be empty">> ELSE <<>>)

\* sendErrorResponse
ErrorResponse(statusCode, message, fields) ==
    [status |-> statusCode, Status |-> "error", Error |-> message, Fields |-> fields]

\* http.StatusXxx
StatusOK == 200
StatusCreated == 201
StatusBadRequest == 400
StatusNotFound == 404
StatusInternalServerError == 500

\* The requests the handlers receive.
Bodies ==
    {[kind |-> "empty"], [kind |-> "malformed"]}
        \cup {[kind |-> "json", text |-> b[1], author |-> b[2]] :
                  b \in {<<<<>>, <<"L">>>>, <<<<"t">>, <<" ", "\t">>>>, <<<<" ", "t">>, <<"L", " ">>>>}}
AuthorParams == {<<" ", "\t">>, <<"L", " ">>}
IdVars ==
    {[ok |-> FALSE, id |-> <<>>]}
        \cup [ok : {TRUE},
              id : {<<Digits[k + 1]>> : k \in IDs}
                     \cup {<<"1", "x">>, <<"-", "1">>,
                           [MaxInt64 EXCEPT ![Len(MaxInt64)] = "8"]}]

\* The handler answers without calling the store.
Reply(p, r, response) ==
    /\ pc[p] = "idle"
    /\ req' = [req EXCEPT ![p] = r]
    /\ resp' = [resp EXCEPT ![p] = response]
    /\ UNCHANGED <<store, mu, pc, args, ctxDone, id, ret, held, hist, srv>>

\* The handler calls the store with ctx := r.Context().
Serve(p, r, a) ==
    /\ Invoke(p, a, "select")
    /\ req' = [req EXCEPT ![p] = r]
    /\ resp' = [resp EXCEPT ![p] = NoResp]
    /\ srv' = srv

\* NewAddQuoteHandler, up to the call of qs.AddQuote
AddQuoteHandler(p) ==
    \E body \in Bodies :
        LET r == [handler |-> "Add", body |-> body]
            d == Decode(body)
            validationErrors == ValidationErrors(d) IN
        IF d.err = "EOF"
        THEN Reply(p, r, ErrorResponse(StatusBadRequest, "Request body is empty.", <<>>))
        ELSE IF d.err # "nil"
        THEN Reply(p, r, ErrorResponse(StatusBadRequest, "Failed to decode request body.", <<>>))
        ELSE IF Len(validationErrors) > 0
        THEN Reply(p, r, ErrorResponse(StatusBadRequest, "Invalid request.", validationErrors))
        ELSE /\ nextID + AddsPending <= MaxID
             /\ Serve(p, r, [op |-> "Add", text |-> d.Text, author |-> d.Author, id |-> 0])

\* NewGetAllQuotesHandler, up to the call of qs.GetAllQuotes
GetAllQuotesHandler(p) ==
    Serve(p, [handler |-> "GetAll"], [NoArgs EXCEPT !.op = "GetAll"])

\* NewGetRandomQuoteHandler, up to the call of qs.GetRandomQuote
GetRandomQuoteHandler(p) ==
    Serve(p, [handler |-> "Random"], [NoArgs EXCEPT !.op = "Random"])

\* NewGetQuotesByAuthorHandler, up to the call of qs.GetQuotesByAuthor
GetQuotesByAuthorHandler(p) ==
    \E author \in AuthorParams :
        LET r == [handler |-> "ByAuthor", author |-> author] IN
        IF IsBlank(author)
        THEN Reply(p, r, ErrorResponse(StatusBadRequest,
                                       "Author query parameter is required.", <<>>))
        ELSE Serve(p, r, [NoArgs EXCEPT !.op = "ByAuthor", !.author = author])

\* NewDeleteQuoteHandler, up to the call of qs.DeleteQuote
DeleteQuoteHandler(p) ==
    \E v \in IdVars :
        LET r == [handler |-> "Delete", vars |-> v]
            parsed == ParseInt(v.id) IN
        IF ~v.ok
        THEN Reply(p, r, ErrorResponse(StatusBadRequest, "Quote ID is missing in path.", <<>>))
        ELSE IF parsed.err # "nil"
        THEN Reply(p, r, ErrorResponse(StatusBadRequest, "Invalid quote ID format.", <<>>))
        ELSE Serve(p, r, [NoArgs EXCEPT !.op = "Delete", !.id = parsed.value])

\* err != nil
IsNotFound_AnyError(err) == err # "nil"

\* errors.Is(err, storage.ErrQuoteNotFound)
IsNotFound(err) == err = "NotFound"

\* What a handler writes once the store has returned r.
\* errors.Is(err, storage.ErrQuoteNotFound) is tested by the random-quote and
\* the delete handler alone.
Response(h, op, r, rq) ==
    CASE op = "Add" ->
           IF r.err # "nil"
           THEN ErrorResponse(StatusInternalServerError, "Failed to add quote.", <<>>)
           ELSE [status |-> StatusCreated, Status |-> "success", ID |-> r.id,
                 Text |-> rq.body.text, Author |-> rq.body.author]
      [] op = "GetAll" ->
           IF r.err # "nil"
           THEN ErrorResponse(StatusInternalServerError, "Failed to retrieve quotes.", <<>>)
           ELSE [status |-> StatusOK, Status |-> "success", Data |-> View(h, r.list)]
      [] op = "Random" ->
           IF IsNotFound(r.err)
           THEN ErrorResponse(StatusNotFound, "No quotes found.", <<>>)
           ELSE IF r.err # "nil"
           THEN ErrorResponse(StatusInternalServerError,
                              "Failed to retrieve random quote.", <<>>)
           ELSE [status |-> StatusOK, Status |-> "success", Data |-> r.quote]
      [] op = "ByAuthor" ->
           IF r.err # "nil"
           THEN ErrorResponse(StatusInternalServerError,
                              "Failed to retrieve quotes by author.", <<>>)
           ELSE [status |-> StatusOK, Status |-> "success", Data |-> View(h, r.list)]
      [] op = "Delete" ->
           IF IsNotFound(r.err)
           THEN ErrorResponse(StatusNotFound, "Quote not found.", <<>>)
           ELSE IF r.err # "nil"
           THEN ErrorResponse(StatusInternalServerError, "Failed to delete quote.", <<>>)
           ELSE [status |-> StatusOK, Status |-> "success",
                 Message |-> "Quote deleted successfully."]

\* The store's method returns to the handler (releasing s.mu if it took it)
\* and the handler writes its response.
Respond(p) ==
    /\ pc[p] \in {"unlock", "runlock", "return"}
    /\ mu' = CASE pc[p] = "unlock" -> [mu EXCEPT !.writer = IF @ = p THEN 0 ELSE @]
               [] pc[p] = "runlock" -> [mu EXCEPT !.readers = @ \ {p}]
               [] OTHER -> mu
    /\ IF pc[p] = "unlock" THEN Record(p) ELSE UNCHANGED <<issued, added, pre, late>>
    /\ Return(p)
    /\ Drop(p)
    /\ resp' = [resp EXCEPT ![p] = Response(heap, args[p].op, ret[p], req[p])]
    /\ req' = [req EXCEPT ![p] = NoReq]
    /\ UNCHANGED <<quotes, nextID, everIssued, everAdded, srv>>

\* ------------------------------------------------------------ main
\* The goroutine of main, and the goroutines of the request handlers.
MainProc == CHOOSE p \in Procs : \A q \in Procs : q <= p
Handlers == Procs \ {MainProc}

\* <-done: a signal arrives and main calls srv.Shutdown(ctx), which closes the
\* listeners; no request is accepted from here on.
Signal ==
    /\ srv.state = "serving"
    /\ srv' = [srv EXCEPT !.state = "shutdown"]
    /\ UNCHANGED <<store, mu, pc, args, ctxDone, id, ret, held, hist, req, resp>>

\* srv.Shutdown(ctx) returns nil: no handler is running any more.
ShutdownDone ==
    /\ srv.state = "shutdown"
    /\ \A h \in Handlers : pc[h] = "idle"
    /\ srv' = [srv EXCEPT !.state = "stopped"]
    /\ UNCHANGED <<store, mu, pc, args, ctxDone, id, ret, held, hist, req, resp>>

\* srv.Shutdown(ctx) returns ctx.Err(): shutdownTimeout has passed with a
\* handler still running; main logs the error and goes on.
ShutdownTimeout ==
    /\ srv.state = "shutdown"
    /\ \E h \in Handlers : pc[h] # "idle"
    /\ srv' = [srv EXCEPT !.state = "stopped", !.timedOut = TRUE]
    /\ UNCHANGED <<store, mu, pc, args, ctxDone, id, ret, held, hist, req, resp>>

\* main returns: the deferred function calls storage.Close().
MainClose ==
    /\ srv.state = "stopped"
    /\ Invoke(MainProc, [NoArgs EXCEPT !.op = "Close"], "lock")
    /\ srv' = [srv EXCEPT !.state = "closing", !.closes = @ + 1]
    /\ UNCHANGED <<req, resp>>

\* The steps of storage.Close() in main's goroutine.
MainCloseStep ==
    \/ Lock(MainProc)
    \/ CloseMap(MainProc)
    \/ CloseList(MainProc)
    \/ CloseNext(MainProc)
    \/ Unlock(MainProc)

\* Close has returned and main ends, and with it the process and every
\* goroutine.
MainExit ==
    /\ srv.state = "closing"
    /\ pc[MainProc] = "idle"
    /\ srv' = [srv EXCEPT !.state = "exited"]
    /\ UNCHANGED <<store, mu, pc, args, ctxDone, id, ret, held, hist, req, resp>>

\* A request is accepted while the server listens.
HandlerStart(h) ==
    /\ srv.state = "serving"
    /\ \/ AddQuoteHandler(h)
       \/ GetAllQuotesHandler(h)
       \/ DeleteQuoteHandler(h)

\* A handler that was started runs on until the process ends.
HandlerStep(h) ==
    /\ srv.state # "exited"
    /\ \/ CtxSelect(h)
       \/ Lock(h)
       \/ AddID(h)
       \/ AddIncr(h)
       \/ AddMap(h)
       \/ AddList(h)
       \/ DeleteCheck(h)
       \/ DeleteMap(h)
       \/ DeleteList(h)
       \/ RLock(h)
       \/ GetAllQuotes(h)
       \/ Respond(h)

\* ------------------------------------------------------------ specifications
\* The steps of the three writers and of GetAllQuotes, but for the return.
WriterStep(p) ==
    \/ Lock(p)
    \/ AddID(p)
    \/ AddIncr(p)
    \/ AddMap(p)
    \/ AddList(p)
    \/ DeleteCheck(p)
    \/ DeleteMap(p)
    \/ DeleteList(p)
    \/ CloseMap(p)
    \/ CloseList(p)
    \/ CloseNext(p)

\* Any number of callers, any method, contexts cancelled at any time.
Next ==
    \E p \in Procs :
        \/ CallAddQuote(p)
        \/ CallGetAllQuotes(p)
        \/ CallGetRandomQuote(p)
        \/ CallGetQuotesByAuthor(p)
        \/ CallDeleteQuote(p)
        \/ CallClose(p)
        \/ Cancel(p)
        \/ CtxSelect(p)
        \/ WriterStep(p)
        \/ RLock(p)
        \/ GetAllQuotes(p)
        \/ GetRandomQuote(p)
        \/ GetQuotesByAuthor(p)
        \/ Unlock(p)
        \/ RUnlock(p)
        \/ ReturnCancelled(p)

Spec == Init /\ [][Next]_vars

\* AddQuote, GetAllQuotes, DeleteQuote and Close with live contexts, and the
\* history of the store's whole life.
NextEver ==
    \E p \in Procs :
        \/ CallAddQuote(p)
        \/ CallGetAllQuotes(p)
        \/ CallDeleteQuote(p)
        \/ CallClose(p)
        \/ CtxSelect(p)
        \/ WriterStep(p)
        \/ RLock(p)
        \/ GetAllQuotes(p)
        \/ UnlockEver(p)
        \/ RUnlock(p)

SpecEver == Init /\ [][NextEver]_vars

\* A caller that reads with GetAllQuotes and keeps what it returned, while
\* the other callers add, delete and close.
NextKeep ==
    \/ \E p \in Keepers :
        \/ CallGetAllQuotes(p)
        \/ CtxSelect(p)
        \/ RLock(p)
        \/ GetAllQuotes(p)
        \/ RUnlockKeep(p)
    \/ \E p \in Procs \ Keepers :
        \/ CallAddQuote(p)
        \/ CallDeleteQuote(p)
        \/ CallClose(p)
        \/ CtxSelect(p)
        \/ WriterStep(p)
        \/ Unlock(p)

SpecKeep == Init /\ [][NextKeep]_vars

\* Concurrent AddQuote calls with live contexts on a new store.
NextAdd ==
    \E p \in Procs :
        \/ CallAddQuote(p)
        \/ CtxSelect(p)
        \/ Lock(p)
        \/ AddID(p)
        \/ AddIncr(p)
        \/ AddMap(p)
        \/ AddList(p)
        \/ Unlock(p)

SpecAdd == Init /\ [][NextAdd]_vars

\* AddQuote and DeleteQuote calls whose contexts are cancelled at any time
\* before they hold s.mu, with a record of the calls cancelled by then.
NextCancel ==
    \E p \in Procs :
        \/ CallAddQuote(p)
        \/ CallDeleteQuote(p)
        \/ Cancel(p)
        \/ CtxSelect(p)
        \/ LockLate(p)
        \/ AddID(p)
        \/ AddIncr(p)
        \/ AddMap(p)
        \/ AddList(p)
        \/ DeleteCheck(p)
        \/ DeleteMap(p)
        \/ DeleteList(p)
        \/ Unlock(p)
        \/ ReturnCancelled(p)

SpecCancel == Init /\ [][NextCancel]_vars

\* The five HTTP handlers over the store, requests of any shape, each
\* request's context cancelled at any time.
NextHTTP ==
    \E p \in Procs :
        \/ AddQuoteHandler(p)
        \/ GetAllQuotesHandler(p)
        \/ GetRandomQuoteHandler(p)
        \/ GetQuotesByAuthorHandler(p)
        \/ DeleteQuoteHandler(p)
        \/ Cancel(p)
        \/ CtxSelect(p)
        \/ Lock(p)
        \/ AddID(p)
        \/ AddIncr(p)
        \/ AddMap(p)
        \/ AddList(p)
        \/ DeleteCheck(p)
        \/ DeleteMap(p)
        \/ DeleteList(p)
        \/ RLock(p)
        \/ GetAllQuotes(p)
        \/ GetRandomQuote(p)
        \/ GetQuotesByAuthor(p)
        \/ Respond(p)

SpecHTTP == Init /\ [][NextHTTP]_vars

\* The life of the process: the handlers serve requests until a signal
\* arrives, main shuts the server down, closes the store and returns.
NextMain ==
    \/ \E h \in Handlers : HandlerStart(h) \/ HandlerStep(h)
    \/ Signal
    \/ ShutdownDone
    \/ ShutdownTimeout
    \/ MainClose
    \/ MainCloseStep
    \/ MainExit

SpecMain == Init /\ [][NextMain]_vars

\* ------------------------------------------------------------ claims
\* The callers inside a critical section of s.mu.
WriterInside == {p \in Procs : pc[p] \in {"add_id", "add_incr", "add_map", "add_list",
                                           "del_check", "del_map", "del_list",
                                           "close_map", "close_list", "close_next",
                                           "unlock"}}
ReaderInside == {p \in Procs : pc[p] \in {"getall", "random", "byauthor", "runlock"}}

\* The quotes of s.quotesList, in order.
List == View(heap, quotesList)
ListIDs == {List[i].ID : i \in 1..Len(List)}

\* A method is about to return (its result is in ret, the lock still held).
Returning(p, op) == args[p].op = op /\ pc[p] \in {"unlock", "runlock"}

\* C1: whenever no writer is inside its critical section, and whenever a
\* reader is inside its own, s.quotes and s.quotesList hold the same ids and,
\* for each id, the same quote.
C1_MapListConsistent ==
    (WriterInside = {} \/ ReaderInside # {}) =>
        /\ ListIDs = DOMAIN quotes
        /\ \A i \in 1..Len(List) : quotes[List[i].ID] = List[i]

\* C1 witness: a reader is inside its critical section on a store from which
\* a quote was deleted and which still holds two.
C1_Witness ==
    /\ ReaderInside # {}
    /\ Len(issued) = 3
    /\ Cardinality(DOMAIN quotes) = 2

\* C2: between two Closes, the ids AddQuote returns are strictly increasing in
\* the order of return, whatever DeleteQuote calls are interleaved; hence they
\* are pairwise distinct and an id freed by DeleteQuote is not returned again.
C2_IdsStrictlyIncreasing ==
    \A i, j \in 1..Len(issued) : i < j => issued[i] < issued[j]

\* C2 witness: AddQuote is returning 3 after ids 1 and 2 were returned and
\* deleted.
C2_Witness ==
    \E p \in Procs :
        /\ Returning(p, "Add")
        /\ ret[p].id = 3
        /\ issued = <<1, 2>>
        /\ DOMAIN quotes = {3}

\* C3 as claimed: s.nextID is greater than every id AddQuote has ever
\* returned, Close included among the operations.
C3_NextIDAboveEveryIssued ==
    \A k \in everIssued : k < nextID

\* C3: s.nextID is greater than every id AddQuote has returned since the
\* store was created or last closed.
C3_NextIDAboveIssuedSinceClose ==
    \A i \in 1..Len(issued) : issued[i] < nextID

\* C3 witness: three ids were returned, Close ran, and two ids were returned
\* since.
C3_Witness ==
    /\ everIssued = {1, 2, 3}
    /\ issued = <<1, 2>>
    /\ nextID = 3

\* The number of quotes of a sequence that carry id k.
Count(qs, k) == Cardinality({i \in 1..Len(qs) : qs[i].ID = k})

\* GetAllQuotes is returning a list in which exactly one quote has id k, and
\* that quote has the text and author of a.
ListsOnce(p, k, a) ==
    LET l == View(heap, ret[p].list) IN
    /\ Count(l, k) = 1
    /\ \A i \in 1..Len(l) : l[i].ID = k => l[i] = Quote(k, a.Text, a.Author)

\* C4 as claimed: a GetAllQuotes that reads the list after AddQuote(t, a)
\* returned k lists exactly one quote with id k, with text t and author a, as
\* long as no DeleteQuote(k) has succeeded.
C4_ListedUntilDeleted ==
    \A p \in Procs : Returning(p, "GetAll") =>
        \A k \in DOMAIN everAdded : ListsOnce(p, k, everAdded[k])

\* C4: the same, as long as neither a DeleteQuote(k) has succeeded nor a
\* Close has run.
C4_ListedUntilDeletedOrClosed ==
    \A p \in Procs : Returning(p, "GetAll") =>
        /\ ret[p].err = "nil"
        /\ \A k \in DOMAIN added : ListsOnce(p, k, added[k])

\* C4 witness: GetAllQuotes is returning two quotes of three added, the
\* second of them having been deleted.
C4_Witness ==
    \E p \in Procs :
        /\ Returning(p, "GetAll")
        /\ issued = <<1, 2, 3>>
        /\ DOMAIN added = {1, 3}
        /\ ret[p].list.len = 2

\* The store as it stands, in the shape of pre.
Now == [quotes |-> quotes, list |-> List, nextID |-> nextID]

\* C5: a DeleteQuote(id) that finds no quote with that id returns
\* ErrQuoteNotFound and leaves s.quotes, s.quotesList and s.nextID as they
\* were; so does a second DeleteQuote(k) after a first that succeeded.
C5_DeleteAbsentNotFound ==
    \A p \in Procs :
        (Returning(p, "Delete") /\ args[p].id \notin DOMAIN pre.quotes) =>
            /\ ret[p].err = "NotFound"
            /\ Now = pre

\* C5 witness: DeleteQuote(k) is returning ErrQuoteNotFound for an id that
\* AddQuote returned and an earlier DeleteQuote removed, other quotes remaining.
C5_Witness ==
    \E p \in Procs :
        /\ Returning(p, "Delete")
        /\ ret[p].err = "NotFound"
        /\ \E i \in 1..Len(issued) : issued[i] = args[p].id
        /\ quotesList.len = 2

\* C6: a DeleteQuote(id) that succeeds removes the one quote with that id
\* from s.quotesList, the others keeping their content and their order,
\* removes the same id from s.quotes and nothing else, and leaves s.nextID.
C6_DeleteRemovesExactlyOne ==
    \A p \in Procs :
        (Returning(p, "Delete") /\ ret[p].err = "nil") =>
            /\ \E i \in 1..Len(pre.list) :
                   /\ pre.list[i].ID = args[p].id
                   /\ List = SubSeq(pre.list, 1, i - 1)
                               \o SubSeq(pre.list, i + 1, Len(pre.list))
            /\ DOMAIN quotes = (DOMAIN pre.quotes) \ {args[p].id}
            /\ \A k \in DOMAIN quotes : quotes[k] = pre.quotes[k]
            /\ nextID = pre.nextID

\* C6 witness: DeleteQuote has removed the second of three quotes.
C6_Witness ==
    \E p \in Procs :
        /\ Returning(p, "Delete")
        /\ ret[p].err = "nil"
        /\ Len(pre.list) = 3
        /\ pre.list[2].ID = args[p].id

\* The positions of s.quotesList whose author is a, and the j-th of them.
AuthorAt(a) == {i \in 1..Len(List) : List[i].Author = a}
Nth(S, j) == CHOOSE i \in S : Cardinality({x \in S : x < i}) = j - 1

\* C7: GetQuotesByAuthor(a) returns, without error and as a non-nil slice,
\* the stored quotes whose author is exactly a, each once, in the order of
\* s.quotesList.
C7_ByAuthorExact ==
    \A p \in Procs : Returning(p, "ByAuthor") =>
        LET r == View(heap, ret[p].list)
            at == AuthorAt(args[p].author) IN
        /\ ret[p].err = "nil"
        /\ ~ret[p].list.isNil
        /\ Len(r) = Cardinality(at)
        /\ \A j \in 1..Len(r) : r[j] = List[Nth(at, j)]

\* C7 witness: GetQuotesByAuthor is returning the first and third of three
\* quotes, the second differing from the filter in case only.
C7_Witness ==
    \E p \in Procs :
        /\ Returning(p, "ByAuthor")
        /\ Len(List) = 3
        /\ AuthorAt(args[p].author) = {1, 3}

\* C8: GetRandomQuote returns ErrQuoteNotFound on an empty store and
\* otherwise, without error, a quote that is stored; and at the point of
\* selection every stored quote can be the one returned.
C8_RandomStored ==
    \A p \in Procs :
        /\ Returning(p, "Random") =>
               IF Len(List) = 0
               THEN ret[p].err = "NotFound" /\ ret[p].quote = ZeroQuote
               ELSE /\ ret[p].err = "nil"
                    /\ ret[p].quote.ID \in DOMAIN quotes
                    /\ quotes[ret[p].quote.ID] = ret[p].quote
        /\ pc[p] = "random" =>
               \A k \in DOMAIN quotes :
                   ENABLED (GetRandomQuote(p) /\ ret'[p].quote = quotes[k])

\* C8 witness: GetRandomQuote is returning the last of three stored quotes.
C8_Witness ==
    \E p \in Procs :
        /\ Returning(p, "Random")
        /\ Len(List) = 3
        /\ ret[p].quote = List[3]

\* The stored quotes in the order AddQuote returned their ids.
InsertionOrder ==
    LET ids == SelectSeq(issued, LAMBDA k : k \in DOMAIN added) IN
    [i \in 1..Len(ids) |-> Quote(ids[i], added[ids[i]].Text, added[ids[i]].Author)]

\* GetAllQuotes returns, without error and as a non-nil slice, the stored
\* quotes in insertion order.
ReturnsInsertionOrder ==
    \A p \in Procs : Returning(p, "GetAll") =>
        /\ ret[p].err = "nil"
        /\ ~ret[p].list.isNil
        /\ View(heap, ret[p].list) = InsertionOrder

\* No slice GetAllQuotes returned shares its array with s.quotesList.
NoAlias ==
    \A p \in Procs :
        /\ held[p].arr # 0 => held[p].arr # quotesList.arr
        /\ (Returning(p, "GetAll") /\ ret[p].list.arr # 0) => ret[p].list.arr # quotesList.arr

\* A slice a caller holds shows the same quotes after any step of any caller.
HeldUnchanged ==
    \A p \in Procs :
        (~held[p].isNil /\ pc'[p] = "idle") =>
            /\ ~held'[p].isNil
            /\ View(heap', held'[p]) = View(heap, held[p])

\* C9: GetAllQuotes returns the stored quotes in insertion order, as a
\* non-nil slice that shares no array with the store, and no later step of
\* AddQuote, DeleteQuote or Close changes the length or the contents of a
\* slice it returned.
C9_GetAllIsSnapshot ==
    /\ [](ReturnsInsertionOrder /\ NoAlias)
    /\ [][HeldUnchanged]_vars

\* C9 witness: a caller holds the two quotes GetAllQuotes returned, of which
\* the store has since deleted the first and to which it has added a third.
C9_Witness ==
    \E p \in Procs :
        /\ held[p].len = 2
        /\ View(heap, held[p])[1].ID = 1
        /\ ListIDs = {2, 3}

\* C10: when AddQuote calls with live contexts are all that runs on a new
\* store, each returns without error, and once all have returned the ids
\* returned are 1..N for the N calls, none twice, and the store holds N quotes.
C10_ConcurrentAdds ==
    /\ \A p \in Procs : Returning(p, "Add") => ret[p].err = "nil" /\ ret[p].id > 0
    /\ (\A p \in Procs : pc[p] = "idle") =>
           /\ {issued[i] : i \in 1..Len(issued)} = 1..Len(issued)
           /\ Len(List) = Len(issued)
           /\ DOMAIN quotes = 1..Len(issued)

\* C10 witness: the two callers have made three calls between them, and all
\* have returned.
C10_Witness ==
    /\ \A p \in Procs : pc[p] = "idle"
    /\ Len(issued) = 3

\* C11: at most one of AddQuote, DeleteQuote and Close is inside its critical
\* section, and it is the one s.mu records as the writer; while one is, none
\* of GetAllQuotes, GetRandomQuote and GetQuotesByAuthor is inside its own;
\* and a reader waiting for s.mu can enter whenever no writer holds it or
\* waits for it, whatever readers are already inside.
C11_MutualExclusion ==
    /\ Cardinality(WriterInside) <= 1
    /\ WriterInside # {} => ReaderInside = {}
    /\ WriterInside = IF mu.writer = 0 THEN {} ELSE {mu.writer}
    /\ ReaderInside = mu.readers
    /\ \A p \in Procs :
           (/\ pc[p] = "lock" /\ args[p].op \in Readers
            /\ WriterInside = {}
            /\ \A q \in Procs : pc[q] = "lock" => args[q].op \in Readers) =>
               ENABLED RLock(p)

\* C11 witness: two readers are inside their critical sections at once.
C11_Witness ==
    /\ Cardinality(ReaderInside) = 2
    /\ quotesList.len = 2

\* The state a sequential execution of the AddQuote and DeleteQuote calls
\* that have returned (since the store was created or closed) produces, the
\* calls taken in the order of their returns: the i-th AddQuote stores id i,
\* a DeleteQuote that succeeded removes its id.
Sequential ==
    LET ids == SelectSeq([i \in 1..Len(issued) |-> i], LAMBDA k : k \in DOMAIN added) IN
    [i \in 1..Len(ids) |-> Quote(ids[i], added[ids[i]].Text, added[ids[i]].Author)]

\* What each read returns on a store that holds the quotes qs.
SeqGetAll(qs) == qs
SeqByAuthor(qs, a) == SelectSeq(qs, LAMBDA q : q.Author = a)
SeqRandom(qs) == {qs[i] : i \in 1..Len(qs)}

\* C12: every read returns what it would return on the state produced by the
\* AddQuote and DeleteQuote calls that have returned, applied one after the
\* other in the order of their returns; every call that returned before the
\* read started is among them, and no call is applied in part.
C12_ReadsLinearizable ==
    \A p \in Procs :
        /\ Returning(p, "GetAll") =>
               ret[p].err = "nil" /\ View(heap, ret[p].list) = SeqGetAll(Sequential)
        /\ Returning(p, "ByAuthor") =>
               /\ ret[p].err = "nil"
               /\ View(heap, ret[p].list) = SeqByAuthor(Sequential, args[p].author)
        /\ Returning(p, "Random") =>
               IF Sequential = <<>> THEN ret[p].err = "NotFound"
               ELSE ret[p].err = "nil" /\ ret[p].quote \in SeqRandom(Sequential)

\* C12 witness: a read is returning the one quote left of two added while
\* another caller's AddQuote waits for the lock.
C12_Witness ==
    \E p, q \in Procs :
        /\ Returning(p, "ByAuthor")
        /\ ret[p].list.len = 1
        /\ Len(issued) = 2
        /\ DOMAIN added = {2}
        /\ args[q].op = "Add" /\ pc[q] = "lock"

\* A call whose context was done when it was made leaves its select with the
\* zero value and ctx.Err() to return, and neither that step nor its return
\* changes s.quotes, s.quotesList or s.nextID.
CancelledCallReturns ==
    \A p \in Procs :
        /\ (pc[p] = "select" /\ ctxDone[p] /\ pc'[p] # "select") =>
               /\ pc'[p] = "return"
               /\ ret'[p] = Cancelled
               /\ store' = store
        /\ (pc[p] = "return" /\ pc'[p] # "return") =>
               /\ pc'[p] = "idle"
               /\ quotes' = quotes /\ nextID' = nextID
               /\ View(heap', quotesList') = View(heap, quotesList)
               /\ mu' = mu

\* A call returns before taking the lock only with ctx.Err(), and then with
\* no id, no quote and no list.
ReturnsCancellation ==
    \A p \in Procs :
        pc[p] = "return" =>
            /\ args[p].op \in {"Add", "GetAll", "Random", "ByAuthor", "Delete"}
            /\ ret[p].err = "Canceled"
            /\ ret[p].id = 0 /\ ret[p].quote = ZeroQuote /\ ret[p].list = NilSlice

\* C13: AddQuote, GetAllQuotes, GetRandomQuote, GetQuotesByAuthor and
\* DeleteQuote, called with a context that is already done, return ctx.Err()
\* (never ErrQuoteNotFound, never success) with no data, and leave s.quotes,
\* s.quotesList and s.nextID unchanged.
C13_CancelledBeforeCall ==
    /\ []ReturnsCancellation
    /\ [][CancelledCallReturns]_vars

\* C13 witness: DeleteQuote of an absent id and GetRandomQuote on an empty
\* store, both called with a done context, are returning ctx.Err().
C13_Witness ==
    \E p, q \in Procs :
        /\ pc[p] = "return" /\ args[p].op = "Delete" /\ args[p].id \notin DOMAIN quotes
        /\ pc[q] = "return" /\ args[q].op = "Random" /\ quotesList.len = 0
        /\ ret[p].err = "Canceled" /\ ret[q].err = "Canceled"

\* C14 as claimed: an AddQuote or DeleteQuote whose context is done before it
\* enters its critical section, the wait for s.mu included, returns ctx.Err()
\* and leaves s.quotes, s.quotesList and s.nextID as it found them; AddQuote
\* returns an id only when its context was not done by then.
C14_CancelledBeforeCriticalSection ==
    \A p \in Procs :
        (p \in late /\ pc[p] = "unlock") =>
            /\ ret[p].err = "Canceled"
            /\ ret[p].id = 0
            /\ Now = pre

\* C14 witness: an AddQuote cancelled while it waited for s.mu is returning
\* a new id.
C14_Witness ==
    \E p \in Procs :
        /\ p \in late
        /\ Returning(p, "Add")
        /\ ret[p].err = "nil"
        /\ ret[p].id = 2

\* The store as New and Close leave it.
Closed == [quotes |-> EmptyMap, list |-> <<>>, nextID |-> 1]

\* C15: Close, from whatever state it finds, returns nil and leaves s.quotes
\* empty, s.quotesList empty and non-nil, and s.nextID = 1; the first AddQuote
\* to return after it returns 1; and a Close that finds the store as a Close
\* left it leaves it the same.
C15_CloseResets ==
    \A p \in Procs :
        /\ Returning(p, "Close") =>
               /\ ret[p].err = "nil"
               /\ Now = Closed
               /\ quotesList = EmptySlice
               /\ pre = Closed => Now = pre
        /\ (Returning(p, "Add") /\ issued = <<>>) => ret[p].id = 1

\* C15 witness: a second Close in a row is returning, on a store to which
\* three quotes were once added.
C15_Witness ==
    \E p \in Procs :
        /\ Returning(p, "Close")
        /\ everIssued = {1, 2, 3}
        /\ pre = Closed

\* C16: in every state, those inside the critical sections of AddQuote,
\* DeleteQuote and Close included, no two entries of s.quotesList have the
\* same id.
C16_ListIdsDistinct ==
    \A i, j \in 1..Len(List) : List[i].ID = List[j].ID => i = j

\* C16 witness: the list holds two quotes whose ids were returned once
\* before a Close and again after it.
C16_Witness ==
    /\ Len(List) = 2
    /\ everIssued = {1, 2, 3}
    /\ issued = <<1, 2>>
    /\ \A p \in Procs : pc[p] = "idle"

\* The message of each handler's 500 response.
GenericMessage(op) ==
    CASE op = "Add" -> "Failed to add quote."
      [] op = "GetAll" -> "Failed to retrieve quotes."
      [] op = "Random" -> "Failed to retrieve random quote."
      [] op = "ByAuthor" -> "Failed to retrieve quotes by author."
      [] op = "Delete" -> "Failed to delete quote."

\* The response a handler writes when the store returns to it.
MapsOutcome ==
    \A p \in Procs :
        (pc[p] \in {"unlock", "runlock", "return"} /\ pc'[p] = "idle") =>
            LET op == args[p].op
                err == ret[p].err
                out == resp'[p]
                notFound == op \in {"Random", "Delete"} /\ err = "NotFound" IN
            /\ out.status = 404 <=> notFound
            /\ (err # "nil" /\ ~notFound) =>
                   /\ out.status = 500
                   /\ out.Error = GenericMessage(op)
                   /\ out.Fields = <<>>
            /\ err = "nil" => out.status = IF op = "Add" THEN 201 ELSE 200
            /\ (err = "nil" /\ op = "Add") => out.ID = ret[p].id

\* C17: the random-quote and delete handlers answer 404 exactly when the
\* store returns ErrQuoteNotFound; any other error the store returns to any of
\* the five handlers, ctx.Err() included, is answered 500 with the handler's
\* fixed message; a nil error is answered 201 by the create handler, with the
\* id the store returned, and 200 by the four others.
C17_OutcomeMapping == [][MapsOutcome]_vars

\* C17 witness: one handler has answered 404 and the other 500, on a store to
\* which two quotes were added.
C17_Witness ==
    \E p, q \in Procs :
        /\ resp[p].status = 404
        /\ resp[q].status = 500
        /\ nextID = 3

\* A string with a character that is not white space.
NonBlank(s) == \E i \in DOMAIN s : s[i] \notin Whitespace

\* A string that is an optional sign and decimal digits, of a value in int64.
IsInt64(s) ==
    LET ds == IF s # <<>> /\ s[1] \in {"+", "-"} THEN Tail(s) ELSE s
        mag == DropZeros(ds) IN
    /\ ds # <<>>
    /\ \A i \in DOMAIN ds : \E d \in DOMAIN Digits : ds[i] = Digits[d]
    /\ \/ Len(mag) < Len(MaxInt64)
       \/ Len(mag) = Len(MaxInt64) /\ DigitsLeq(mag, IF s[1] = "-" THEN MinInt64 ELSE MaxInt64)

\* The requests the claim lets through to the store.
WellFormed(r) ==
    CASE r.handler = "Add" ->
           r.body.kind = "json" /\ NonBlank(r.body.text) /\ NonBlank(r.body.author)
      [] r.handler = "ByAuthor" -> NonBlank(r.author)
      [] r.handler = "Delete" -> r.vars.ok /\ IsInt64(r.vars.id)
      [] OTHER -> TRUE

\* A handler that receives a request calls the store, with what the request
\* carries, when the request is well formed; when it is not, it answers 400
\* and neither calls nor changes the store.
ValidatesBeforeStore ==
    \A p \in Procs :
        (pc[p] = "idle" /\ <<pc[p], req[p], resp[p]>> # <<pc'[p], req'[p], resp'[p]>>) =>
            LET r == req'[p] IN
            IF WellFormed(r)
            THEN /\ pc'[p] = "select"
                 /\ args'[p].op = r.handler
                 /\ r.handler = "Add" =>
                        args'[p].text = r.body.text /\ args'[p].author = r.body.author
                 /\ r.handler = "ByAuthor" => args'[p].author = r.author
            ELSE /\ pc'[p] = "idle"
                 /\ resp'[p].status = 400
                 /\ args'[p] = args[p]
                 /\ store' = store

\* Every quote in s.quotes and s.quotesList has a text and an author that
\* are not blank.
StoredNonBlank ==
    /\ \A i \in 1..Len(List) : NonBlank(List[i].Text) /\ NonBlank(List[i].Author)
    /\ \A k \in DOMAIN quotes : NonBlank(quotes[k].Text) /\ NonBlank(quotes[k].Author)

\* C18: the create handler calls AddQuote only when the body decodes and its
\* text and author are non-blank, the author handler calls GetQuotesByAuthor
\* only when the author parameter is non-blank, the delete handler calls
\* DeleteQuote only when the id is a 64-bit integer; otherwise they answer 400
\* without calling the store; hence every quote stored has a non-blank text
\* and author.
C18_MalformedNeverReachesStore ==
    /\ []StoredNonBlank
    /\ [][ValidatesBeforeStore]_vars

\* C18 witness: the create handler has answered 400 to a body that decodes
\* but has a blank author, on a store that holds two quotes.
C18_Witness ==
    \E p \in Procs :
        /\ resp[p].status = 400
        /\ req[p].handler = "Add"
        /\ req[p].body.kind = "json"
        /\ req[p].body.text # <<>>
        /\ Len(List) = 2

\* C19 as claimed: storage.Close() is called once, after srv.Shutdown has
\* returned, and from its call on no handler is inside or still to run a
\* call of the store, also when Shutdown returned on its timeout.
C19_CloseAfterHandlers ==
    /\ srv.closes <= 1
    /\ pc[MainProc] # "idle" => srv.state = "closing"
    /\ srv.state \in {"closing", "exited"} => \A h \in Handlers : pc[h] = "idle"

\* C19 witness: Shutdown returned on its timeout, main is inside Close, and a
\* handler's AddQuote waits for s.mu, to run once Close has returned.
C19_Witness ==
    \E h \in Handlers :
        /\ srv.timedOut
        /\ pc[MainProc] = "close_list"
        /\ args[h].op = "Add" /\ pc[h] = "lock"

====
